---- MODULE Spec2Model ----
(***************************************************************************)
(* Model of the token-info registrar program (src/src/lib.rs): the single  *)
(* CreateInfo instruction handler, run by a host ledger that loads the     *)
(* accounts of a transaction, runs the handler on a working copy and       *)
(* commits the copy only when the handler returns Ok.                      *)
(*                                                                         *)
(* Public keys are modelled as natural numbers; byte strings as sequences  *)
(* of numbers in 0..255.                                                   *)
(***************************************************************************)
EXTENDS Integers, Sequences, FiniteSets, TLC

(***************************************************************************)
(* Program constants.                                                      *)
(***************************************************************************)
FEE_RECEIVER == 5
AUTHORITY == 3
MAGIC_BYTE == 171
DATA_VERSION == 1
fee_amount == 100000000

\* Discriminants of TokenInfoError, in declaration order (`e as u32`).
TokenInfoError ==
    [InvalidInstruction |-> 0, AccountAlreadyExists |-> 1,
     InsufficientFunds |-> 2, InvalidLinkData |-> 3]

\* Discriminants of the system program's SystemError, as the sub-calls return them.
SystemError == [AccountAlreadyInUse |-> 0, ResultWithNegativeLamports |-> 1]

(***************************************************************************)
(* Bounds of the model.                                                    *)
(***************************************************************************)
\* At most this many deviations from a well-formed request in one transaction.
MaxFaults == 2
\* The same, for the requests of the two-lane host.
MaxConcFaults == 1
\* The same, for the host whose payers include the fee receiver; a payer that
\* is the fee receiver counts as one deviation.
MaxSelfPayFaults == 1
\* The same, for the host that is sent every kind of instruction buffer; a
\* buffer that does not decode counts as one deviation.
MaxDecodeFaults == 2

(***************************************************************************)
(* Keys of the model's world.                                              *)
(***************************************************************************)
\* Program accounts: the system program, the executing program, another program.
Prog == [system |-> 0, self |-> 1, other |-> 2]
PROGRAM_ID == Prog.self

\* Wallets: alice and bob are system-owned payers, vault is a signer account
\* owned by another program, mallory is a stranger's wallet.
Wallet == [alice |-> 11, bob |-> 12, vault |-> 13, mallory |-> 14]

\* Token-mint accounts.
Mints == {100, 4001}

(***************************************************************************)
(* ProgramResult values: Ok, a built-in ProgramError, or Custom(code).     *)
(***************************************************************************)
Ok == [kind |-> "Ok", code |-> 0]
Err(kind) == [kind |-> kind, code |-> 0]
Custom(code) == [kind |-> "Custom", code |-> code]
Pending == [kind |-> "Pending", code |-> 0]

\* impl From<TokenInfoError> for ProgramError
FromTokenInfoError(e) == Custom(e)

(***************************************************************************)
(* Pubkey::to_string: base58 of the key (here: of the key's number).       *)
(***************************************************************************)
Base58Alphabet ==
    << 49, 50, 51, 52, 53, 54, 55, 56, 57,
       65, 66, 67, 68, 69, 70, 71, 72, 74, 75, 76, 77, 78, 80, 81, 82, 83,
       84, 85, 86, 87, 88, 89, 90,
       97, 98, 99, 100, 101, 102, 103, 104, 105, 106, 107, 109, 110, 111,
       112, 113, 114, 115, 116, 117, 118, 119, 120, 121, 122 >>

RECURSIVE Base58(_)
Base58(n) ==
    IF n < 58 THEN << Base58Alphabet[n + 1] >>
    ELSE Append(Base58(n \div 58), Base58Alphabet[(n % 58) + 1])

\* mint_account.key.to_string()
to_string(key) == Base58(key)

(***************************************************************************)
(* Program-derived addresses.  The platform hashes (seeds, bump, program)  *)
(* and accepts the first candidate, searching the bump downwards from 255, *)
(* that is off the key curve.  The hash is modelled by an injective        *)
(* placement of (mint, program, bump) above every wallet key.              *)
(***************************************************************************)
SeedHash(mint, bump, program) == 10000 + ((mint * 4 + program) * 256) + bump

OnCurve(key) == key < 10000 \/ key % 3 # 0

\* Pubkey::create_program_address(&[b"token_info", mint, &[bump]], program)
CreateProgramAddress(mint, bump, program) ==
    IF OnCurve(SeedHash(mint, bump, program))
    THEN [ok |-> FALSE, address |-> 0]
    ELSE [ok |-> TRUE, address |-> SeedHash(mint, bump, program)]

RECURSIVE FindFrom(_, _, _)
FindFrom(mint, program, bump) ==
    IF CreateProgramAddress(mint, bump, program).ok \/ bump = 0
    THEN [address |-> CreateProgramAddress(mint, bump, program).address, bump |-> bump]
    ELSE FindFrom(mint, program, bump - 1)

\* find_info_account(mint, program_id) -> (Pubkey, u8)
find_info_account(mint, program_id) == FindFrom(mint, program_id, 255)

InfoAddress(mint) == find_info_account(mint, PROGRAM_ID).address

RecordAddrs == { InfoAddress(m) : m \in Mints }

(***************************************************************************)
(* Borsh encoding.                                                         *)
(***************************************************************************)
U32LE(n) ==
    << n % 256, (n \div 256) % 256, (n \div 65536) % 256, (n \div 16777216) % 256 >>

\* Two's-complement little-endian bytes of a signed integer, `width` bytes.
RECURSIVE IntLE(_, _)
IntLE(n, width) ==
    IF width = 0 THEN << >>
    ELSE << n % 256 >> \o IntLE(n \div 256, width - 1)

I64LE(n) == IntLE(n, 8)

\* String: 4-byte length, then the UTF-8 bytes.
EncString(str) == U32LE(Len(str)) \o str

\* Link { label, url }
EncLink(link) == EncString(link.label) \o EncString(link.url)

RECURSIVE EncLinkSeq(_)
EncLinkSeq(links) ==
    IF links = << >> THEN << >>
    ELSE EncLink(Head(links)) \o EncLinkSeq(Tail(links))

\* Vec<Link>: 4-byte count, then the elements in order.
EncLinks(links) == U32LE(Len(links)) \o EncLinkSeq(links)

\* Instruction::CreateInfo { description, links, icon_uri, header_uri }, tag 0.
EncInstruction(ix) ==
    << 0 >> \o EncString(ix.description) \o EncLinks(ix.links)
            \o EncString(ix.icon_uri) \o EncString(ix.header_uri)

\* Images { icon, header }
EncImages(images) == EncString(images.icon) \o EncString(images.header)

\* TokenInfo::V1(TokenInfoV1 { .. }), tag 0.
EncTokenInfo(info) ==
    << 0 >> \o EncString(info.mint) \o EncString(info.description)
            \o EncLinks(info.links) \o EncImages(info.images)
            \o I64LE(info.creation_timestamp) \o I64LE(info.update_timestamp)

(***************************************************************************)
(* Borsh decoding.  A reader returns [ok, val, pos]: pos is the index of   *)
(* the next unread byte.  Buffers of the model are shorter than 65536      *)
(* bytes, so a length with a non-zero high half saturates at 65536.        *)
(***************************************************************************)
Fail == [ok |-> FALSE, val |-> 0, pos |-> 0]

ReadU32(buf, pos) ==
    IF pos + 3 > Len(buf) THEN Fail
    ELSE [ok |-> TRUE,
          val |-> IF buf[pos + 2] = 0 /\ buf[pos + 3] = 0
                  THEN buf[pos] + 256 * buf[pos + 1]
                  ELSE 65536,
          pos |-> pos + 4]

\* String::from_utf8 on the model's bytes: ASCII passes, 0x80..0xFF (the model
\* uses only 0xFF, which no UTF-8 text contains) is rejected.
Utf8Valid(bytes) == \A i \in 1..Len(bytes) : bytes[i] < 128

ReadString(buf, pos) ==
    LET n == ReadU32(buf, pos) IN
    IF ~n.ok \/ n.pos + n.val - 1 > Len(buf) THEN Fail
    ELSE LET bytes == SubSeq(buf, n.pos, n.pos + n.val - 1) IN
         IF Utf8Valid(bytes)
         THEN [ok |-> TRUE, val |-> bytes, pos |-> n.pos + n.val]
         ELSE Fail

ReadLink(buf, pos) ==
    LET label == ReadString(buf, pos) IN
    IF ~label.ok THEN Fail
    ELSE LET url == ReadString(buf, label.pos) IN
         IF ~url.ok THEN Fail
         ELSE [ok |-> TRUE, val |-> [label |-> label.val, url |-> url.val],
               pos |-> url.pos]

RECURSIVE ReadLinkSeq(_, _, _)
ReadLinkSeq(buf, pos, count) ==
    IF count = 0 THEN [ok |-> TRUE, val |-> << >>, pos |-> pos]
    ELSE LET first == ReadLink(buf, pos) IN
         IF ~first.ok THEN Fail
         ELSE LET rest == ReadLinkSeq(buf, first.pos, count - 1) IN
              IF ~rest.ok THEN Fail
              ELSE [ok |-> TRUE, val |-> << first.val >> \o rest.val,
                    pos |-> rest.pos]

ReadLinks(buf, pos) ==
    LET count == ReadU32(buf, pos) IN
    IF ~count.ok THEN Fail ELSE ReadLinkSeq(buf, count.pos, count.val)

\* Mutant: the decoder stops after the last field and does not look for more bytes.
DecodeInstruction_IgnoresRest(buf) ==
    IF Len(buf) = 0 \/ buf[1] # 0 THEN Fail
    ELSE LET description == ReadString(buf, 2) IN
         IF ~description.ok THEN Fail
         ELSE LET links == ReadLinks(buf, description.pos) IN
              IF ~links.ok THEN Fail
              ELSE LET icon == ReadString(buf, links.pos) IN
                   IF ~icon.ok THEN Fail
                   ELSE LET header == ReadString(buf, icon.pos) IN
                        IF ~header.ok THEN Fail
                        ELSE [ok |-> TRUE,
                              val |-> [description |-> description.val,
                                       links |-> links.val,
                                       icon_uri |-> icon.val,
                                       header_uri |-> header.val],
                              pos |-> header.pos]

\* Instruction::try_from_slice: the variant tag, the four fields, and no byte left.
DecodeInstruction(buf) ==
    IF Len(buf) = 0 \/ buf[1] # 0 THEN Fail
    ELSE LET description == ReadString(buf, 2) IN
         IF ~description.ok THEN Fail
         ELSE LET links == ReadLinks(buf, description.pos) IN
              IF ~links.ok THEN Fail
              ELSE LET icon == ReadString(buf, links.pos) IN
                   IF ~icon.ok THEN Fail
                   ELSE LET header == ReadString(buf, icon.pos) IN
                        IF ~header.ok \/ header.pos # Len(buf) + 1 THEN Fail
                        ELSE [ok |-> TRUE,
                              val |-> [description |-> description.val,
                                       links |-> links.val,
                                       icon_uri |-> icon.val,
                                       header_uri |-> header.val],
                              pos |-> header.pos]

\* i64 little-endian.  The clock values of the model fit 31 bits, so the upper
\* four bytes are the sign extension; any other value reads as a failure.
ReadI64(buf, pos) ==
    IF pos + 7 > Len(buf) THEN Fail
    ELSE LET b(i) == buf[pos + i] IN
         IF b(3) < 128 /\ \A i \in 4..7 : b(i) = 0
         THEN [ok |-> TRUE,
               val |-> b(0) + 256 * b(1) + 65536 * b(2) + 16777216 * b(3),
               pos |-> pos + 8]
         ELSE IF b(3) >= 128 /\ \A i \in 4..7 : b(i) = 255
         THEN [ok |-> TRUE,
               val |-> -1 - ((255 - b(0)) + 256 * (255 - b(1))
                             + 65536 * (255 - b(2)) + 16777216 * (255 - b(3))),
               pos |-> pos + 8]
         ELSE Fail

\* The fields of TokenInfoV1 from position pos on.
ReadTokenInfoV1(buf, pos) ==
    LET mint == ReadString(buf, pos) IN
    IF ~mint.ok THEN Fail
    ELSE LET description == ReadString(buf, mint.pos) IN
    IF ~description.ok THEN Fail
    ELSE LET links == ReadLinks(buf, description.pos) IN
    IF ~links.ok THEN Fail
    ELSE LET icon == ReadString(buf, links.pos) IN
    IF ~icon.ok THEN Fail
    ELSE LET header == ReadString(buf, icon.pos) IN
    IF ~header.ok THEN Fail
    ELSE LET created == ReadI64(buf, header.pos) IN
    IF ~created.ok THEN Fail
    ELSE LET updated == ReadI64(buf, created.pos) IN
    IF ~updated.ok THEN Fail
    ELSE [ok |-> TRUE,
          val |-> [mint |-> mint.val, description |-> description.val,
                   links |-> links.val,
                   images |-> [icon |-> icon.val, header |-> header.val],
                   creation_timestamp |-> created.val,
                   update_timestamp |-> updated.val],
          pos |-> updated.pos]

\* A reader of a persisted record: the magic byte and the version byte, the
\* variant tag of TokenInfo::V1, the fields, and no byte left.
DecodeRecord(data) ==
    IF Len(data) < 3 \/ data[1] # MAGIC_BYTE \/ data[2] # DATA_VERSION \/ data[3] # 0
    THEN Fail
    ELSE LET info == ReadTokenInfoV1(data, 4) IN
         IF info.ok /\ info.pos = Len(data) + 1 THEN info ELSE Fail

(***************************************************************************)
(* The ledger: one account per key, [lamports, owner, data].               *)
(***************************************************************************)
LedgerKeys ==
    {Wallet.alice, Wallet.bob, Wallet.vault, Wallet.mallory, FEE_RECEIVER}
        \cup RecordAddrs

Account(lamports, owner, data) ==
    [lamports |-> lamports, owner |-> owner, data |-> data]

\* Rent::minimum_balance with the ledger's default rent parameters.
RentMinimumBalance(len) == (128 + len) * 3480 * 2

\* Clock::get()?.unix_timestamp: the values the ledger clock takes in the model.
Timestamps == {-2, 1700000000}

(***************************************************************************)
(* Transactions.  A request is the account list (keys in the fixed role    *)
(* order payer, authority, mint, record, system program, fee receiver,     *)
(* then any extra accounts), the keys that signed, and the instruction     *)
(* bytes.                                                                  *)
(***************************************************************************)
IxPlain ==
    [description |-> << 70, 111, 111 >>, links |-> << >>,
     icon_uri |-> << 97 >>, header_uri |-> << 98 >>]

IxLinks ==
    [description |-> << >>,
     links |-> << [label |-> << 119 >>, url |-> << 117 >>],
                  [label |-> << 120 >>, url |-> << >>],
                  [label |-> << 119 >>, url |-> << 117 >>] >>,
     icon_uri |-> << 105 >>, header_uri |-> << >>]

\* A buffer cut in the middle of the description's length field.
IxTruncated == SubSeq(EncInstruction(IxPlain), 1, 3)

Choices(payers, datas) ==
    [payer : payers, payerSigned : BOOLEAN,
     authority : {AUTHORITY, Wallet.mallory}, authSigned : BOOLEAN,
     mint : Mints, info : RecordAddrs,
     sys : {Prog.system, Prog.other}, extraSys : BOOLEAN, short : BOOLEAN,
     feeRecv : {FEE_RECEIVER, Wallet.mallory},
     data : datas]

Bit(b) == IF b THEN 1 ELSE 0

\* The number of ways a request deviates from a well-formed one.
Faults(c) ==
    Bit(~c.payerSigned) + Bit(~c.authSigned) + Bit(c.authority # AUTHORITY)
    + Bit(c.feeRecv # FEE_RECEIVER) + Bit(c.info # InfoAddress(c.mint))
    + Bit(c.sys # Prog.system) + Bit(c.short) + Bit(c.payer = Wallet.vault)
    + Bit(c.payer = FEE_RECEIVER)
    + Bit(~DecodeInstruction(c.data).ok)

RequestOf(c) ==
    [accts |->
        LET six == << c.payer, c.authority, c.mint, c.info, c.sys, c.feeRecv >> IN
        IF c.short THEN SubSeq(six, 1, 5)
        ELSE IF c.extraSys THEN Append(six, Prog.system)
        ELSE six,
     signers |-> (IF c.payerSigned THEN {c.payer} ELSE {})
                 \cup (IF c.authSigned THEN {c.authority} ELSE {}),
     data |-> c.data]

RequestsFrom(payers, datas, maxFaults) ==
    { RequestOf(c) : c \in { d \in Choices(payers, datas) :
                             /\ Faults(d) <= maxFaults
                             /\ (d.extraSys => d.sys # Prog.system /\ ~d.short) } }

\* Requests of the sequential host.
Requests ==
    RequestsFrom({Wallet.alice, Wallet.vault},
                 {EncInstruction(IxPlain), EncInstruction(IxLinks), IxTruncated},
                 MaxFaults)

\* Requests of the sequential host when the holder of the fee receiver's key
\* also pays for creations: the payer and the fee receiver are then one account.
SelfPayRequests ==
    RequestsFrom({Wallet.alice, FEE_RECEIVER},
                 {EncInstruction(IxPlain), EncInstruction(IxLinks)},
                 MaxSelfPayFaults)

\* Buffers that are not the encoding of an instruction: an encoding cut short
\* at any byte, with another variant tag, with bytes after the last field,
\* with a byte no UTF-8 text contains, or with a length beyond the buffer.
Prefixes(buf) == { SubSeq(buf, 1, n) : n \in 0..(Len(buf) - 1) }

MalformedBuffers ==
    LET plain == EncInstruction(IxPlain)
        links == EncInstruction(IxLinks)
    IN Prefixes(plain)
       \cup { SubSeq(links, 1, n) : n \in {9, 12, 15, Len(links) - 1} }
       \cup { [plain EXCEPT ![1] = 1], [links EXCEPT ![1] = 255] }
       \cup { plain \o << 0 >>, links \o << 0, 0, 0, 0 >>, plain \o plain }
       \cup { [plain EXCEPT ![6] = 255], [plain EXCEPT ![5] = 1] }

\* Requests of the sequential host with every kind of instruction buffer: the
\* malformed ones with accounts that deviate in the signatures, the record
\* address and the number of accounts, the well-formed ones with the right
\* accounts.
DecodeRequests ==
    { req \in RequestsFrom({Wallet.alice}, MalformedBuffers, MaxDecodeFaults) :
        /\ req.accts[2] = AUTHORITY
        /\ req.accts[5] = Prog.system
        /\ \A m \in Mints : req.accts[3] <= m
        /\ Len(req.accts) = 6 => req.accts[6] = FEE_RECEIVER }
        \cup RequestsFrom({Wallet.alice},
                          {EncInstruction(IxPlain), EncInstruction(IxLinks)}, 0)

\* Requests of the two-lane host: two system-owned payers, signed and
\* well-formed, deviating at most in the fee receiver and the record address.
ConcRequests ==
    { req \in RequestsFrom({Wallet.alice, Wallet.bob}, {EncInstruction(IxPlain)},
                           MaxConcFaults) :
        /\ Len(req.accts) = 6
        /\ req.signers = {req.accts[1], AUTHORITY}
        /\ req.accts[5] = Prog.system }

Slots == {1, 2}

VARIABLES
    ledger,   \* the committed accounts
    tx,       \* per slot: the transaction in flight and the handler's position
    last      \* the transaction the host ended in the latest step, if it ended one

vars == << ledger, tx, last >>

NoIx == [description |-> << >>, links |-> << >>, icon_uri |-> << >>, header_uri |-> << >>]

IdleTx ==
    [pc |-> "idle", accts |-> << >>, signers |-> {}, data |-> << >>,
     ix |-> NoIx, work |-> << >>, passed |-> {}, calls |-> << >>,
     clock |-> 0, ser |-> << >>, result |-> Pending]

NoLast ==
    [accts |-> << >>, signers |-> {}, data |-> << >>, passed |-> {},
     calls |-> << >>, clock |-> 0, result |-> Pending, pre |-> << >>]

\* Roles of the account list (next_account_info order).
payer_account(t) == tx[t].accts[1]
authority_account(t) == tx[t].accts[2]
mint_account(t) == tx[t].accts[3]
info_account(t) == tx[t].accts[4]
system_program(t) == tx[t].accts[5]
fee_receiver(t) == tx[t].accts[6]

\* Accounts a request locks for writing (payer, record, fee receiver) and reading.
Positions(accts, wanted) == { accts[i] : i \in (1..Len(accts)) \cap wanted }
WriteKeys(accts) == Positions(accts, {1, 4, 6})
ReadKeys(accts) == Positions(accts, {2, 3, 5, 7})

\* The host's account locks: a write lock excludes every other lock on the key.
Conflicts(a, b) ==
    \/ WriteKeys(a) \cap (WriteKeys(b) \cup ReadKeys(b)) # {}
    \/ WriteKeys(b) \cap (WriteKeys(a) \cup ReadKeys(a)) # {}

InFlight(t) == tx[t].pc # "idle"

LockFree(t, req) ==
    \A u \in Slots \ {t} : InFlight(u) => ~Conflicts(req.accts, tx[u].accts)

(***************************************************************************)
(* Initial ledgers.                                                        *)
(***************************************************************************)
Rich == 3 * fee_amount

\* Balances of the payer alice: one unit short of the fee, the fee alone, enough
\* for one creation but not for a second fee, and enough for several creations.
PayerBalances == {fee_amount - 1, fee_amount, fee_amount + fee_amount \div 2, Rich}

SystemWallet(lamports) == Account(lamports, Prog.system, << >>)

\* The record address whose initial balance and owner the initial ledgers vary.
FirstRecord == InfoAddress(CHOOSE m \in Mints : \A n \in Mints : m <= n)

InitLedger(aliceLamports, prefund, recordOwner) ==
    [k \in LedgerKeys |->
        IF k = Wallet.alice THEN SystemWallet(aliceLamports)
        ELSE IF k = Wallet.bob THEN SystemWallet(Rich)
        ELSE IF k = Wallet.vault THEN Account(Rich, Prog.other, << >>)
        ELSE IF k = FirstRecord THEN Account(prefund, recordOwner, << >>)
        ELSE IF k \in RecordAddrs THEN SystemWallet(0)
        ELSE SystemWallet(1000000)]

\* Ledgers the chain can be in before the first creation: every record address
\* is system-owned and empty, possibly pre-funded by a third party.
Init ==
    /\ \E a \in PayerBalances, f \in {0, 1000} :
          ledger = InitLedger(a, f, Prog.system)
    /\ tx = [t \in Slots |-> IdleTx]
    /\ last = NoLast

(***************************************************************************)
(* The system program's primitives, as the two sub-calls use them.  Each   *)
(* returns [result, work]: the ProgramResult and the accounts afterwards.  *)
(***************************************************************************)
SubCall(result, work) == [result |-> result, work |-> work]

\* Move lamports between two accounts of the working set.
MoveLamports(work, from, to, lamports) ==
    LET debited == [work EXCEPT ![from].lamports = @ - lamports] IN
    [debited EXCEPT ![to].lamports = @ + lamports]

\* system_instruction::transfer, run by the system program.
SystemTransfer(work, signers, from, to, lamports) ==
    IF from \notin signers THEN SubCall(Err("MissingRequiredSignature"), work)
    ELSE IF work[from].data # << >> THEN SubCall(Err("InvalidArgument"), work)
    ELSE IF lamports > work[from].lamports
    THEN SubCall(Custom(SystemError.ResultWithNegativeLamports), work)
    ELSE IF work[from].owner # Prog.system
    THEN SubCall(Err("ExternalAccountLamportSpend"), work)
    ELSE SubCall(Ok, MoveLamports(work, from, to, lamports))

\* system_instruction::create_account, run by the system program.
SystemCreateAccount(work, signers, from, to, lamports, space, owner) ==
    IF work[to].lamports > 0
    THEN SubCall(Custom(SystemError.AccountAlreadyInUse), work)
    ELSE IF to \notin signers THEN SubCall(Err("MissingRequiredSignature"), work)
    ELSE IF work[to].data # << >> \/ work[to].owner # Prog.system
    THEN SubCall(Custom(SystemError.AccountAlreadyInUse), work)
    ELSE LET allocated ==
                 [work EXCEPT ![to].data = [i \in 1..space |-> 0],
                              ![to].owner = owner]
         IN SystemTransfer(allocated, signers, from, to, lamports)

\* invoke / invoke_signed: the host finds the callee among the instruction's
\* accounts and checks that every account the sub-call marks as signer is a
\* signer of the caller or an address the caller's seeds derive.
Invoke(accts, callerSigners, needSigners, run) ==
    IF \A i \in 1..Len(accts) : accts[i] # Prog.system
    THEN SubCall(Err("MissingAccount"), << >>)
    ELSE IF ~(needSigners \subseteq callerSigners)
    THEN SubCall(Err("PrivilegeEscalation"), << >>)
    ELSE run

\* Mutant: the update timestamp is left at zero.
TokenInfoV1_UpdateZero(mint, ix, ts) ==
    [mint |-> to_string(mint), description |-> ix.description,
     links |-> ix.links,
     images |-> [icon |-> ix.icon_uri, header |-> ix.header_uri],
     creation_timestamp |-> ts, update_timestamp |-> 0]

\* Mutant: the icon and the header reference change places.
TokenInfoV1_SwappedImages(mint, ix, ts) ==
    [mint |-> to_string(mint), description |-> ix.description,
     links |-> ix.links,
     images |-> [icon |-> ix.header_uri, header |-> ix.icon_uri],
     creation_timestamp |-> ts, update_timestamp |-> ts]

\* The record of a creation at timestamp ts.
TokenInfoV1(mint, ix, ts) ==
    [mint |-> to_string(mint), description |-> ix.description,
     links |-> ix.links,
     images |-> [icon |-> ix.icon_uri, header |-> ix.header_uri],
     creation_timestamp |-> ts, update_timestamp |-> ts]

\* Mutant: the two header bytes are pushed in the opposite order.
SerializeRecord_VersionFirst(info) ==
    << DATA_VERSION, MAGIC_BYTE >> \o EncTokenInfo(info)

\* serialized_data: the two header bytes, then the TokenInfo encoding.
SerializeRecord(info) == << MAGIC_BYTE, DATA_VERSION >> \o EncTokenInfo(info)

(***************************************************************************)
(* The handler, one action per step of process_instruction and             *)
(* process_create_info.  A failed step stores the error and goes to        *)
(* "return"; the host then finishes the transaction.                       *)
(***************************************************************************)
Fails(t, err) == tx' = [tx EXCEPT ![t].pc = "return", ![t].result = err]

\* A sub-call the handler made, and whether it returned Ok.
Called(call, ok) == [call |-> call, ok |-> ok]

Passes(t, check, next) ==
    tx' = [tx EXCEPT ![t].pc = next, ![t].passed = @ \cup {check}]

\* The host takes a request whose account locks are free and loads its accounts.
Begin(t, requests) ==
    /\ tx[t].pc = "idle"
    /\ \E req \in requests :
          /\ LockFree(t, req)
          /\ tx' = [tx EXCEPT ![t] =
                       [IdleTx EXCEPT !.pc = "decode", !.accts = req.accts,
                                      !.signers = req.signers, !.data = req.data,
                                      !.work = ledger]]
    /\ last' = NoLast
    /\ UNCHANGED ledger

\* The host turns away a request that needs an account another lane has locked.
LockConflict(t, requests) ==
    /\ tx[t].pc = "idle"
    /\ \E req \in requests :
          /\ ~LockFree(t, req)
          /\ last' = [NoLast EXCEPT !.accts = req.accts, !.signers = req.signers,
                                    !.data = req.data,
                                    !.result = Err("AccountInUse"),
                                    !.pre = ledger]
    /\ UNCHANGED << ledger, tx >>

\* process_instruction: Instruction::try_from_slice
Decode(t) ==
    /\ tx[t].pc = "decode"
    /\ LET decoded == DecodeInstruction(tx[t].data) IN
       IF decoded.ok
       THEN tx' = [tx EXCEPT ![t].pc = "accounts", ![t].ix = decoded.val]
       ELSE Fails(t, Err("InvalidInstructionData"))
    /\ UNCHANGED ledger /\ last' = NoLast

\* six calls of next_account_info
TakeAccounts(t) ==
    /\ tx[t].pc = "accounts"
    /\ IF Len(tx[t].accts) >= 6
       THEN tx' = [tx EXCEPT ![t].pc = "payer_signer"]
       ELSE Fails(t, Err("NotEnoughAccountKeys"))
    /\ UNCHANGED ledger /\ last' = NoLast

\* check 1: payer_account.is_signer
CheckPayerSigner(t) ==
    /\ tx[t].pc = "payer_signer"
    /\ IF payer_account(t) \in tx[t].signers
       THEN Passes(t, 1, "authority_signer")
       ELSE Fails(t, Err("MissingRequiredSignature"))
    /\ UNCHANGED ledger /\ last' = NoLast

\* Mutant: the authority's signature is not checked.
CheckAuthoritySigner_Skipped(t) ==
    /\ tx[t].pc = "authority_signer"
    /\ Passes(t, 2, "authority_key")
    /\ UNCHANGED ledger /\ last' = NoLast

\* check 2: authority_account.is_signer
CheckAuthoritySigner(t) ==
    /\ tx[t].pc = "authority_signer"
    /\ IF authority_account(t) \in tx[t].signers
       THEN Passes(t, 2, "authority_key")
       ELSE Fails(t, Err("MissingRequiredSignature"))
    /\ UNCHANGED ledger /\ last' = NoLast

\* check 3: authority_account.key == AUTHORITY
CheckAuthorityKey(t) ==
    /\ tx[t].pc = "authority_key"
    /\ IF authority_account(t) = AUTHORITY
       THEN Passes(t, 3, "fee_receiver_key")
       ELSE Fails(t, Err("InvalidArgument"))
    /\ UNCHANGED ledger /\ last' = NoLast

\* Mutant: the fee receiver's address is not checked.
CheckFeeReceiver_Skipped(t) ==
    /\ tx[t].pc = "fee_receiver_key"
    /\ Passes(t, 4, "balance")
    /\ UNCHANGED ledger /\ last' = NoLast

\* check 4: fee_receiver.key == FEE_RECEIVER
CheckFeeReceiver(t) ==
    /\ tx[t].pc = "fee_receiver_key"
    /\ IF fee_receiver(t) = FEE_RECEIVER
       THEN Passes(t, 4, "balance")
       ELSE Fails(t, Err("InvalidArgument"))
    /\ UNCHANGED ledger /\ last' = NoLast

\* Mutant: the balance check asks for the fee and the rent of an empty account.
CheckBalance_CoversRent(t) ==
    /\ tx[t].pc = "balance"
    /\ IF tx[t].work[payer_account(t)].lamports < fee_amount + RentMinimumBalance(0)
       THEN Fails(t, FromTokenInfoError(TokenInfoError.InsufficientFunds))
       ELSE Passes(t, 5, "transfer")
    /\ UNCHANGED ledger /\ last' = NoLast

\* Mutant: the balance check is off by one unit.
CheckBalance_OffByOne(t) ==
    /\ tx[t].pc = "balance"
    /\ IF tx[t].work[payer_account(t)].lamports + 1 < fee_amount
       THEN Fails(t, FromTokenInfoError(TokenInfoError.InsufficientFunds))
       ELSE Passes(t, 5, "transfer")
    /\ UNCHANGED ledger /\ last' = NoLast

\* check 5: payer_account.lamports() >= fee_amount
CheckBalance(t) ==
    /\ tx[t].pc = "balance"
    /\ IF tx[t].work[payer_account(t)].lamports < fee_amount
       THEN Fails(t, FromTokenInfoError(TokenInfoError.InsufficientFunds))
       ELSE Passes(t, 5, "transfer")
    /\ UNCHANGED ledger /\ last' = NoLast

\* Mutant: a tenth of the fee is transferred.
TransferFee_Tenth(t) ==
    /\ tx[t].pc = "transfer"
    /\ LET sub == Invoke(tx[t].accts, tx[t].signers, {payer_account(t)},
                         SystemTransfer(tx[t].work, tx[t].signers, payer_account(t),
                                        fee_receiver(t), fee_amount \div 10))
       IN IF sub.result = Ok
          THEN tx' = [tx EXCEPT ![t].pc = "info_address", ![t].work = sub.work,
                                ![t].calls = Append(@, Called("transfer", TRUE))]
          ELSE tx' = [tx EXCEPT ![t].pc = "return", ![t].result = sub.result,
                                ![t].calls = Append(@, Called("transfer", FALSE))]
    /\ UNCHANGED ledger /\ last' = NoLast

\* invoke(system_instruction::transfer(payer, fee_receiver, fee_amount))
TransferFee(t) ==
    /\ tx[t].pc = "transfer"
    /\ LET sub == Invoke(tx[t].accts, tx[t].signers, {payer_account(t)},
                         SystemTransfer(tx[t].work, tx[t].signers, payer_account(t),
                                        fee_receiver(t), fee_amount))
       IN IF sub.result = Ok
          THEN tx' = [tx EXCEPT ![t].pc = "info_address", ![t].work = sub.work,
                                ![t].calls = Append(@, Called("transfer", TRUE))]
          ELSE tx' = [tx EXCEPT ![t].pc = "return", ![t].result = sub.result,
                                ![t].calls = Append(@, Called("transfer", FALSE))]
    /\ UNCHANGED ledger /\ last' = NoLast

\* Mutant: the record address is not compared with the derived address.
CheckInfoAddress_Skipped(t) ==
    /\ tx[t].pc = "info_address"
    /\ Passes(t, 6, "data_empty")
    /\ UNCHANGED ledger /\ last' = NoLast

\* check 6: find_info_account(mint, program_id).0 == info_account.key
CheckInfoAddress(t) ==
    /\ tx[t].pc = "info_address"
    /\ IF find_info_account(mint_account(t), PROGRAM_ID).address # info_account(t)
       THEN Fails(t, Err("InvalidArgument"))
       ELSE Passes(t, 6, "data_empty")
    /\ UNCHANGED ledger /\ last' = NoLast

\* Mutant: the emptiness of the record account is not checked.
CheckDataEmpty_Skipped(t) ==
    /\ tx[t].pc = "data_empty"
    /\ Passes(t, 7, "owner")
    /\ UNCHANGED ledger /\ last' = NoLast

\* Mutant: an existing record ends the handler with Ok instead of an error.
CheckDataEmpty_ReturnsOk(t) ==
    /\ tx[t].pc = "data_empty"
    /\ IF tx[t].work[info_account(t)].data # << >>
       THEN tx' = [tx EXCEPT ![t].pc = "return", ![t].result = Ok]
       ELSE Passes(t, 7, "owner")
    /\ UNCHANGED ledger /\ last' = NoLast

\* Mutant: an existing record is overwritten with the new request's record.
CheckDataEmpty_Upsert(t) ==
    /\ tx[t].pc = "data_empty"
    /\ IF tx[t].work[info_account(t)].data # << >>
       THEN \E ts \in Timestamps :
               tx' = [tx EXCEPT ![t].pc = "return", ![t].result = Ok,
                                ![t].work[info_account(t)].data =
                                    SerializeRecord(
                                        TokenInfoV1(mint_account(t), tx[t].ix, ts))]
       ELSE Passes(t, 7, "owner")
    /\ UNCHANGED ledger /\ last' = NoLast

\* check 7: info_account.data_is_empty()
CheckDataEmpty(t) ==
    /\ tx[t].pc = "data_empty"
    /\ IF tx[t].work[info_account(t)].data # << >>
       THEN Fails(t, FromTokenInfoError(TokenInfoError.AccountAlreadyExists))
       ELSE Passes(t, 7, "owner")
    /\ UNCHANGED ledger /\ last' = NoLast

\* check 8: *info_account.owner == *system_program.key
CheckOwner(t) ==
    /\ tx[t].pc = "owner"
    /\ IF tx[t].work[info_account(t)].owner # system_program(t)
       THEN Fails(t, Err("InvalidAccountData"))
       ELSE Passes(t, 8, "build")
    /\ UNCHANGED ledger /\ last' = NoLast

\* Clock::get, the record and its serialization
BuildRecord(t) ==
    /\ tx[t].pc = "build"
    /\ \E ts \in Timestamps :
          tx' = [tx EXCEPT ![t].pc = "create", ![t].clock = ts,
                           ![t].ser = SerializeRecord(
                                          TokenInfoV1(mint_account(t), tx[t].ix, ts))]
    /\ UNCHANGED ledger /\ last' = NoLast

\* The addresses the signer seeds [b"token_info", mint, [bump]] stand for.
SeedSigners(mint, bump) ==
    LET derived == CreateProgramAddress(mint, bump, PROGRAM_ID) IN
    IF derived.ok THEN {derived.address} ELSE {}

\* Mutant: the rent is computed for the buffer's capacity, not its length.
CreateAccount_RentForCapacity(t) ==
    /\ tx[t].pc = "create"
    /\ LET lamports == RentMinimumBalance(1024)
           signers == tx[t].signers
                        \cup SeedSigners(mint_account(t),
                                         find_info_account(mint_account(t),
                                                           PROGRAM_ID).bump)
           sub == Invoke(tx[t].accts, signers,
                         {payer_account(t), info_account(t)},
                         SystemCreateAccount(tx[t].work, signers, payer_account(t),
                                             info_account(t), lamports,
                                             Len(tx[t].ser), PROGRAM_ID))
       IN IF sub.result = Ok
          THEN tx' = [tx EXCEPT ![t].pc = "write", ![t].work = sub.work,
                                ![t].calls = Append(@, Called("create_account", TRUE))]
          ELSE tx' = [tx EXCEPT ![t].pc = "return", ![t].result = sub.result,
                                ![t].calls = Append(@, Called("create_account", FALSE))]
    /\ UNCHANGED ledger /\ last' = NoLast

\* Mutant: the account is created with the buffer's capacity, not its length.
CreateAccount_Capacity(t) ==
    /\ tx[t].pc = "create"
    /\ LET lamports == RentMinimumBalance(Len(tx[t].ser))
           signers == tx[t].signers
                        \cup SeedSigners(mint_account(t),
                                         find_info_account(mint_account(t),
                                                           PROGRAM_ID).bump)
           sub == Invoke(tx[t].accts, signers,
                         {payer_account(t), info_account(t)},
                         SystemCreateAccount(tx[t].work, signers, payer_account(t),
                                             info_account(t), lamports,
                                             1024, PROGRAM_ID))
       IN IF sub.result = Ok
          THEN tx' = [tx EXCEPT ![t].pc = "write", ![t].work = sub.work,
                                ![t].calls = Append(@, Called("create_account", TRUE))]
          ELSE tx' = [tx EXCEPT ![t].pc = "return", ![t].result = sub.result,
                                ![t].calls = Append(@, Called("create_account", FALSE))]
    /\ UNCHANGED ledger /\ last' = NoLast

\* Rent::get, minimum_balance, invoke_signed(system_instruction::create_account)
CreateAccount(t) ==
    /\ tx[t].pc = "create"
    /\ LET lamports == RentMinimumBalance(Len(tx[t].ser))
           signers == tx[t].signers
                        \cup SeedSigners(mint_account(t),
                                         find_info_account(mint_account(t),
                                                           PROGRAM_ID).bump)
           sub == Invoke(tx[t].accts, signers,
                         {payer_account(t), info_account(t)},
                         SystemCreateAccount(tx[t].work, signers, payer_account(t),
                                             info_account(t), lamports,
                                             Len(tx[t].ser), PROGRAM_ID))
       IN IF sub.result = Ok
          THEN tx' = [tx EXCEPT ![t].pc = "write", ![t].work = sub.work,
                                ![t].calls = Append(@, Called("create_account", TRUE))]
          ELSE tx' = [tx EXCEPT ![t].pc = "return", ![t].result = sub.result,
                                ![t].calls = Append(@, Called("create_account", FALSE))]
    /\ UNCHANGED ledger /\ last' = NoLast

\* info_account.data.borrow_mut().copy_from_slice(&serialized_data); Ok(())
WriteData(t) ==
    /\ tx[t].pc = "write"
    /\ IF Len(tx[t].work[info_account(t)].data) = Len(tx[t].ser)
       THEN tx' = [tx EXCEPT ![t].pc = "return", ![t].result = Ok,
                             ![t].work[info_account(t)].data = tx[t].ser]
       ELSE Fails(t, Err("ProgramFailedToComplete"))
    /\ UNCHANGED ledger /\ last' = NoLast

\* The host ends the transaction: the working copy of the write-locked accounts
\* is committed when the handler returned Ok and dropped otherwise.
Finish(t) ==
    /\ tx[t].pc = "return"
    /\ ledger' = IF tx[t].result = Ok
                 THEN [k \in LedgerKeys |->
                          IF k \in WriteKeys(tx[t].accts) THEN tx[t].work[k]
                          ELSE ledger[k]]
                 ELSE ledger
    /\ last' = [accts |-> tx[t].accts, signers |-> tx[t].signers,
                data |-> tx[t].data, passed |-> tx[t].passed,
                calls |-> tx[t].calls, clock |-> tx[t].clock,
                result |-> tx[t].result, pre |-> ledger]
    /\ tx' = [tx EXCEPT ![t] = IdleTx]

Handler(t) ==
    \/ Decode(t)
    \/ TakeAccounts(t)
    \/ CheckPayerSigner(t)
    \/ CheckAuthoritySigner(t)
    \/ CheckAuthorityKey(t)
    \/ CheckFeeReceiver(t)
    \/ CheckBalance(t)
    \/ TransferFee(t)
    \/ CheckInfoAddress(t)
    \/ CheckDataEmpty(t)
    \/ CheckOwner(t)
    \/ BuildRecord(t)
    \/ CreateAccount(t)
    \/ WriteData(t)
    \/ Finish(t)

\* One lane: transactions run one after the other.
Next == Begin(1, Requests) \/ Handler(1)

Spec == Init /\ [][Next]_vars

\* One lane, the fee receiver among the payers.
NextSelfPay == Begin(1, SelfPayRequests) \/ Handler(1)

SpecSelfPay == Init /\ [][NextSelfPay]_vars

\* One lane, well-formed and malformed instruction buffers.
NextDecode == Begin(1, DecodeRequests) \/ Handler(1)

InitDecode ==
    /\ ledger = InitLedger(Rich, 0, Prog.system)
    /\ tx = [t \in Slots |-> IdleTx]
    /\ last = NoLast

SpecDecode == InitDecode /\ [][NextDecode]_vars

\* Two lanes: the host runs transactions with disjoint account locks side by side.
NextConc ==
    \E t \in Slots :
        \/ Begin(t, ConcRequests)
        \/ LockConflict(t, ConcRequests)
        \/ Handler(t)

InitConc ==
    /\ \E a \in {fee_amount + fee_amount \div 2, Rich} :
          ledger = InitLedger(a, 0, Prog.system)
    /\ tx = [t \in Slots |-> IdleTx]
    /\ last = NoLast

SpecConc == InitConc /\ [][NextConc]_vars

\* A test harness hands the handler accounts it built itself: the record address
\* may be empty and yet owned by another program.
InitHarness ==
    /\ \E o \in {Prog.system, Prog.other} : ledger = InitLedger(Rich, 0, o)
    /\ tx = [t \in Slots |-> IdleTx]
    /\ last = NoLast

SpecHarness == InitHarness /\ [][Next]_vars

(***************************************************************************)
(* Vocabulary of the claims.  `last` is the transaction the host ended in  *)
(* the latest step: its request, the checks it passed, the sub-calls it    *)
(* made, its result and the ledger before it ended; `ledger` is the ledger *)
(* after it.                                                               *)
(***************************************************************************)
AccountAlreadyExists == FromTokenInfoError(TokenInfoError.AccountAlreadyExists)
InsufficientFunds == FromTokenInfoError(TokenInfoError.InsufficientFunds)
LockConflicted == Err("AccountInUse")

\* The host ended a transaction; the handler ran on it.
Ended == last.result # Pending
Ran == Ended /\ last.result # LockConflicted

\* The handler ran on a CreateInfo: the instruction decodes and the six accounts
\* of the fixed role order are there.
IsCreateInfo ==
    Ran /\ DecodeInstruction(last.data).ok /\ Len(last.accts) >= 6

LastPayer == last.accts[1]
LastAuthority == last.accts[2]
LastMint == last.accts[3]
LastInfo == last.accts[4]
LastSystem == last.accts[5]
LastFeeReceiver == last.accts[6]

\* An initialized record: owned by the program and holding data.
Created(l, a) == l[a].owner = PROGRAM_ID /\ l[a].data # << >>

LamportsUnchanged ==
    \A k \in LedgerKeys : ledger[k].lamports = last.pre[k].lamports

CallsOf(calls) == { calls[i] : i \in 1..Len(calls) }

\* The mint a persisted record stores: the string after magic, version and tag.
RecordMint(data) == ReadString(data, 4)

(***************************************************************************)
(* C1.  Claim: once a CreateInfo for mint M has committed, every later     *)
(* CreateInfo for the same M fails with AccountAlreadyExists, and no       *)
(* lamports move on that attempt.                                          *)
(***************************************************************************)
\* C1 as stated: the later attempt's error is always AccountAlreadyExists.
C1_AsStated ==
    (IsCreateInfo /\ Created(last.pre, InfoAddress(LastMint)))
        => (last.result = AccountAlreadyExists /\ LamportsUnchanged)

\* C1 amended: once the record of mint M exists, every later CreateInfo for M
\* fails and leaves the ledger as it was; its error is AccountAlreadyExists
\* whenever the attempt passes checks 1-6, and otherwise that of the earlier
\* step that failed.
C1_AtMostOneCreation ==
    (IsCreateInfo /\ Created(last.pre, InfoAddress(LastMint)))
        => /\ last.result # Ok
           /\ ledger = last.pre
           /\ ((1..6) \subseteq last.passed => last.result = AccountAlreadyExists)

\* A repeated, fully valid CreateInfo for a mint whose record exists was refused.
C1_Witness ==
    /\ IsCreateInfo
    /\ Created(last.pre, LastInfo)
    /\ LastInfo = InfoAddress(LastMint)
    /\ last.result = AccountAlreadyExists
    /\ Called("transfer", TRUE) \in CallsOf(last.calls)

(***************************************************************************)
(* C2.  Claim: every invocation that ends in an error leaves the committed *)
(* ledger exactly as before, so "fee taken but no record created" is never *)
(* reachable.                                                              *)
(***************************************************************************)
\* C2: a failed run changes nothing, and whenever a run changed the ledger it
\* created the record of its request.
C2_FailureLeavesNoTrace ==
    Ran => /\ (last.result # Ok => ledger = last.pre)
           /\ (ledger # last.pre =>
                  /\ Len(last.accts) >= 6
                  /\ Created(ledger, LastInfo)
                  /\ ~Created(last.pre, LastInfo))

\* The fee transfer succeeded, account creation failed on a pre-funded record
\* address, and the ledger is as before.
C2_Witness ==
    /\ IsCreateInfo
    /\ last.calls = << Called("transfer", TRUE), Called("create_account", FALSE) >>
    /\ last.pre[LastInfo].lamports > 0
    /\ last.result = Custom(SystemError.AccountAlreadyInUse)
    /\ ledger = last.pre

(***************************************************************************)
(* C3.  Claim: within one invocation no mutating sub-call is performed     *)
(* before checks 1-4 and 6-8 have all passed, and check 5 precedes the fee *)
(* transfer.                                                               *)
(***************************************************************************)
\* C3 as stated: a transaction in flight that has made a sub-call has passed
\* checks 1-4 and 6-8, and one that has called the transfer has passed check 5.
C3_ChecksBeforeSubCalls ==
    \A t \in Slots :
        /\ (tx[t].calls # << >> => {1, 2, 3, 4, 6, 7, 8} \subseteq tx[t].passed)
        /\ (\E c \in CallsOf(tx[t].calls) : c.call = "transfer") => 5 \in tx[t].passed

(***************************************************************************)
(* C4.  Claim: if the payer's balance is below the fee, CreateInfo fails   *)
(* with InsufficientFunds, no balance changes and no record is created.    *)
(***************************************************************************)
\* C4 as stated: whatever else is wrong with the request.
C4_AsStated ==
    (IsCreateInfo /\ last.pre[LastPayer].lamports < fee_amount)
        => (last.result = InsufficientFunds /\ ledger = last.pre)

\* C4 amended: with a payer balance below the fee, CreateInfo fails without
\* any sub-call and the ledger stays as it was; the error is InsufficientFunds
\* provided checks 1-4 pass (both signatures, authority and fee-receiver
\* identity), and otherwise that of the earlier check that failed.
C4_InsufficientFunds ==
    (IsCreateInfo /\ last.pre[LastPayer].lamports < fee_amount)
        => /\ last.result # Ok
           /\ last.calls = << >>
           /\ ledger = last.pre
           /\ ( ( /\ {LastPayer, LastAuthority} \subseteq last.signers
                  /\ LastAuthority = AUTHORITY
                  /\ LastFeeReceiver = FEE_RECEIVER )
                => last.result = InsufficientFunds )

\* A payer one unit short of the fee was refused with InsufficientFunds.
C4_Witness ==
    /\ IsCreateInfo
    /\ last.pre[LastPayer].lamports = fee_amount - 1
    /\ last.result = InsufficientFunds
    /\ ledger = last.pre

(***************************************************************************)
(* C5.  Claim: a wrong authority address or a wrong fee-receiver address   *)
(* makes an otherwise valid CreateInfo fail with InvalidArgument; no       *)
(* record is created and no fee is paid to any other receiver.             *)
(***************************************************************************)
\* C5: with both signatures present, a wrong authority or fee receiver yields
\* InvalidArgument before any sub-call, and the ledger stays as it was.
C5_FixedIdentities ==
    ( /\ IsCreateInfo
      /\ {LastPayer, LastAuthority} \subseteq last.signers
      /\ (LastAuthority # AUTHORITY \/ LastFeeReceiver # FEE_RECEIVER) )
        => /\ last.result = Err("InvalidArgument")
           /\ last.calls = << >>
           /\ ledger = last.pre

\* An otherwise valid request naming another fee receiver was refused.
C5_Witness ==
    /\ IsCreateInfo
    /\ {LastPayer, LastAuthority} \subseteq last.signers
    /\ LastAuthority = AUTHORITY
    /\ LastFeeReceiver = Wallet.mallory
    /\ LastInfo = InfoAddress(LastMint)
    /\ last.pre[LastPayer].lamports >= fee_amount
    /\ last.result = Err("InvalidArgument")

(***************************************************************************)
(* C6.  Claim: CreateInfo succeeds only when payer and authority both      *)
(* carry a signature; otherwise it fails with MissingSignature and         *)
(* performs no sub-call.                                                   *)
(***************************************************************************)
\* C6: a missing payer or authority signature yields MissingRequiredSignature
\* with no sub-call made, and a successful run had both signatures.
C6_SignaturesRequired ==
    /\ ( (IsCreateInfo /\ ~({LastPayer, LastAuthority} \subseteq last.signers))
           => /\ last.result = Err("MissingRequiredSignature")
              /\ last.calls = << >>
              /\ ledger = last.pre )
    /\ ( (Ran /\ last.result = Ok)
           => {LastPayer, LastAuthority} \subseteq last.signers )

\* A request signed by the payer but not by the authority was refused.
C6_Witness ==
    /\ IsCreateInfo
    /\ LastPayer \in last.signers
    /\ LastAuthority = AUTHORITY
    /\ LastAuthority \notin last.signers
    /\ last.result = Err("MissingRequiredSignature")

(***************************************************************************)
(* C7.  Claim: a CreateInfo whose record address differs from the derived  *)
(* address of its mint fails with InvalidArgument, so every initialized    *)
(* record at address A stores a mint m with derive(m, program) = A.        *)
(***************************************************************************)
\* Every initialized record sits at the address derived from the mint it stores.
RecordsAtDerivedAddress ==
    \A a \in RecordAddrs :
        Created(ledger, a) =>
            \E m \in Mints :
                /\ find_info_account(m, PROGRAM_ID).address = a
                /\ RecordMint(ledger[a].data).ok
                /\ RecordMint(ledger[a].data).val = to_string(m)

\* C7 as stated: the mismatch always yields InvalidArgument.
C7_AsStated ==
    /\ (IsCreateInfo /\ LastInfo # InfoAddress(LastMint))
          => last.result = Err("InvalidArgument")
    /\ RecordsAtDerivedAddress

\* C7 amended: a CreateInfo whose record address differs from the derived
\* address fails and changes nothing; its error is InvalidArgument whenever
\* checks 1-5 pass and the fee transfer succeeds, and otherwise that of the
\* earlier step that failed.  Every initialized record sits at the address
\* derived from the mint it stores.
C7_OnlyAtDerivedAddress ==
    /\ (IsCreateInfo /\ LastInfo # InfoAddress(LastMint))
          => /\ last.result # Ok
             /\ ledger = last.pre
             /\ ( ( /\ (1..5) \subseteq last.passed
                    /\ Called("transfer", TRUE) \in CallsOf(last.calls) )
                  => last.result = Err("InvalidArgument") )
    /\ RecordsAtDerivedAddress

\* A request with another mint's record address was refused at check 6, in a
\* ledger that holds a record.
C7_Witness ==
    /\ IsCreateInfo
    /\ LastInfo # InfoAddress(LastMint)
    /\ (1..5) \subseteq last.passed
    /\ last.result = Err("InvalidArgument")
    /\ \E a \in RecordAddrs : Created(ledger, a)

(***************************************************************************)
(* C8.  Claim: whenever checks 1-7 pass and the record account is not      *)
(* owned by the system program, CreateInfo fails with InvalidAccountData,  *)
(* whatever account is supplied in the system-program position.            *)
(***************************************************************************)
\* C8 as stated: a run that passed checks 1-7 on a record account the system
\* program does not own ended with InvalidAccountData.
C8_OwnerCheck ==
    ( /\ IsCreateInfo
      /\ (1..7) \subseteq last.passed
      /\ last.pre[LastInfo].owner # Prog.system )
        => last.result = Err("InvalidAccountData")

(***************************************************************************)
(* C9.  Claim: a record account is initialized at most once, only by a     *)
(* successful run of the handler, and once initialized its owner, size and *)
(* data never change.                                                      *)
(***************************************************************************)
\* C9: in every step, an initialized record keeps its owner and data (hence its
\* size), and a record becomes initialized only as the host commits a run that
\* returned Ok for that record address.
C9_RecordLifecycle ==
    [][ \A a \in RecordAddrs :
          /\ Created(ledger, a) =>
                /\ ledger'[a].owner = ledger[a].owner
                /\ ledger'[a].data = ledger[a].data
          /\ (~Created(ledger, a) /\ Created(ledger', a)) =>
                \E t \in Slots :
                    /\ tx[t].pc = "return"
                    /\ tx[t].result = Ok
                    /\ info_account(t) = a
                    /\ tx'[t].pc = "idle" ]_vars

\* A valid request reached an initialized record and the record is as it was.
C9_Witness ==
    /\ IsCreateInfo
    /\ Created(last.pre, LastInfo)
    /\ (1..6) \subseteq last.passed
    /\ ledger[LastInfo] = last.pre[LastInfo]

(***************************************************************************)
(* C10.  Claim: of two concurrent CreateInfo transactions for the same     *)
(* mint, serialized by the host's write lock on the record address, at     *)
(* most one commits; the other observes a lock conflict or fails with      *)
(* AccountAlreadyExists.                                                   *)
(***************************************************************************)
\* C10 as stated, of the transaction that comes second.
C10_AsStated ==
    (Ended /\ Created(last.pre, InfoAddress(LastMint)))
        => last.result \in {LockConflicted, AccountAlreadyExists}

\* C10 amended: two transactions holding the same record address are never in
\* flight together; a transaction for a mint whose record is committed never
\* commits and changes nothing: it observes a lock conflict or fails, with
\* AccountAlreadyExists whenever it passes checks 1-6.
C10_AtMostOneCommits ==
    /\ \A t, u \in Slots :
          (t # u /\ InFlight(t) /\ InFlight(u)) => info_account(t) # info_account(u)
    /\ (Ended /\ Created(last.pre, InfoAddress(LastMint)))
          => /\ last.result # Ok
             /\ ledger = last.pre
             /\ ((1..6) \subseteq last.passed => last.result = AccountAlreadyExists)
    /\ (last.result = LockConflicted => ledger = last.pre)

\* While a valid CreateInfo for a mint is in flight, a second one for the same
\* mint and record address was turned away with a lock conflict.
C10_Witness ==
    /\ last.result = LockConflicted
    /\ LastInfo = InfoAddress(LastMint)
    /\ \E t \in Slots :
          /\ InFlight(t)
          /\ mint_account(t) = LastMint
          /\ info_account(t) = LastInfo
          /\ payer_account(t) # LastPayer
          /\ 5 \in tx[t].passed

\* The instruction of the transaction that ended.
LastIx == DecodeInstruction(last.data).val

(***************************************************************************)
(* C11.  Claim: in every reachable state a record address is in exactly    *)
(* one of two conditions: not yet created (owned by the system program,    *)
(* no data) or created (owned by this program, holding exactly the encoded *)
(* record, the data size being the encoding's length); and the size passed *)
(* to create_account equals the length of the buffer then written, so the  *)
(* copy into the new account never fails.                                  *)
(***************************************************************************)
NotYetCreated(acct) == acct.owner = Prog.system /\ acct.data = << >>

HoldsEncodedRecord(acct) ==
    /\ acct.owner = PROGRAM_ID
    /\ DecodeRecord(acct.data).ok
    /\ acct.data = SerializeRecord(DecodeRecord(acct.data).val)

C11_RecordAccountStates ==
    /\ \A a \in RecordAddrs :
          /\ NotYetCreated(ledger[a]) \/ HoldsEncodedRecord(ledger[a])
          /\ ~(NotYetCreated(ledger[a]) /\ HoldsEncodedRecord(ledger[a]))
    /\ \A t \in Slots :
          /\ tx[t].pc = "write" =>
                /\ tx[t].work[info_account(t)].owner = PROGRAM_ID
                /\ Len(tx[t].work[info_account(t)].data) = Len(tx[t].ser)
          /\ tx[t].result # Err("ProgramFailedToComplete")
    /\ (Ran /\ last.result = Ok) =>
          /\ ledger[LastInfo].data =
                SerializeRecord(TokenInfoV1(LastMint, LastIx, last.clock))
          /\ Len(ledger[LastInfo].data) =
                Len(SerializeRecord(TokenInfoV1(LastMint, LastIx, last.clock)))

\* A creation committed while the other record address is still not created.
C11_Witness ==
    /\ Ran /\ last.result = Ok
    /\ NotYetCreated(last.pre[LastInfo])
    /\ HoldsEncodedRecord(ledger[LastInfo])
    /\ \E a \in RecordAddrs : NotYetCreated(ledger[a])

(***************************************************************************)
(* C12.  Claim: for every successful creation, and so for every            *)
(* initialized record in every reachable state, the first two bytes of the *)
(* persisted record are the pair (magic byte 0xAB, version byte 1), and    *)
(* the bytes after them are the encoding of a TokenInfo.                   *)
(***************************************************************************)
HasHeader(data) ==
    /\ Len(data) >= 2
    /\ data[1] = 171
    /\ data[2] = 1

IsTokenInfoEncoding(bytes) ==
    /\ Len(bytes) >= 1
    /\ bytes[1] = 0
    /\ LET info == ReadTokenInfoV1(bytes, 2) IN
          /\ info.ok
          /\ info.pos = Len(bytes) + 1
          /\ EncTokenInfo(info.val) = bytes

C12_MagicAndVersion ==
    /\ \A a \in RecordAddrs :
          Created(ledger, a) =>
             /\ HasHeader(ledger[a].data)
             /\ IsTokenInfoEncoding(SubSeq(ledger[a].data, 3, Len(ledger[a].data)))
    /\ (Ran /\ last.result = Ok) =>
          /\ Created(ledger, LastInfo)
          /\ HasHeader(ledger[LastInfo].data)

\* A creation committed a record with links in it.
C12_Witness ==
    /\ Ran /\ last.result = Ok
    /\ ~Created(last.pre, LastInfo)
    /\ Created(ledger, LastInfo)
    /\ LastIx.links # << >>

(***************************************************************************)
(* C13.  Claim: on every successful creation creation_timestamp equals     *)
(* update_timestamp, both being the unix timestamp the ledger clock gave   *)
(* in that invocation; as there is no update path, the two timestamps are  *)
(* equal in every initialized record of every reachable state.             *)
(***************************************************************************)
C13_TimestampsEqual ==
    /\ \A a \in RecordAddrs :
          Created(ledger, a) =>
             LET rec == DecodeRecord(ledger[a].data) IN
                /\ rec.ok
                /\ rec.val.creation_timestamp = rec.val.update_timestamp
                /\ rec.val.creation_timestamp \in Timestamps
    /\ (Ran /\ last.result = Ok) =>
          LET rec == DecodeRecord(ledger[LastInfo].data) IN
             /\ rec.ok
             /\ rec.val.creation_timestamp = last.clock
             /\ rec.val.update_timestamp = last.clock

\* A creation committed at a clock value before the epoch.
C13_Witness ==
    /\ Ran /\ last.result = Ok
    /\ last.clock < 0
    /\ DecodeRecord(ledger[LastInfo].data).ok
    /\ DecodeRecord(ledger[LastInfo].data).val.update_timestamp = last.clock

(***************************************************************************)
(* C14.  Claim: on every successful CreateInfo the fee receiver's balance  *)
(* increases by exactly the fixed fee (100_000_000), moved from the payer  *)
(* by the system program's transfer, which the payer signed.               *)
(***************************************************************************)
\* The length of the record a request leaves; the timestamps have a fixed width.
RecordLen(mint, ix) == Len(SerializeRecord(TokenInfoV1(mint, ix, 0)))

LastRent == RentMinimumBalance(RecordLen(LastMint, LastIx))

FeeTransferredFirst ==
    /\ LastFeeReceiver = FEE_RECEIVER
    /\ Len(last.calls) >= 1
    /\ last.calls[1] = Called("transfer", TRUE)
    /\ LastPayer \in last.signers

C14_AsStated ==
    (Ran /\ last.result = Ok) =>
        /\ FeeTransferredFirst
        /\ ledger[FEE_RECEIVER].lamports
              = last.pre[FEE_RECEIVER].lamports + 100000000

\* C14, amended: on every successful CreateInfo the fee transfer ran first,
\* signed by the payer, to the fixed fee receiver; when the payer is another
\* account than the fee receiver, the fee receiver's balance increases by
\* exactly the fee and no balance but the payer's, the record's and the fee
\* receiver's changes; when the payer is the fee receiver itself, the fee
\* returns to the account it left and its balance falls by the record's rent.
C14_FeeCollected ==
    (Ran /\ last.result = Ok) =>
        /\ FeeTransferredFirst
        /\ LastPayer # FEE_RECEIVER =>
              /\ ledger[FEE_RECEIVER].lamports
                    = last.pre[FEE_RECEIVER].lamports + 100000000
              /\ last.pre[LastPayer].lamports - ledger[LastPayer].lamports
                    >= 100000000
        /\ LastPayer = FEE_RECEIVER =>
              ledger[FEE_RECEIVER].lamports
                 = last.pre[FEE_RECEIVER].lamports - LastRent
        /\ \A k \in LedgerKeys \ {LastPayer, LastInfo, FEE_RECEIVER} :
              ledger[k].lamports = last.pre[k].lamports

\* The second successful creation, paid by a wallet: the fee receiver had
\* collected a fee before and collects another.
C14_Witness ==
    /\ Ran /\ last.result = Ok
    /\ LastPayer = Wallet.alice
    /\ \E a \in RecordAddrs : Created(last.pre, a)
    /\ ledger[FEE_RECEIVER].lamports = last.pre[FEE_RECEIVER].lamports + fee_amount

(***************************************************************************)
(* C15.  Claim: the record a successful CreateInfo persists decodes back   *)
(* to the request: mint is the textual form of the mint account's address, *)
(* description is the supplied description, links are the supplied links   *)
(* in the same order (duplicates kept), and images are the supplied icon   *)
(* and header references.                                                  *)
(***************************************************************************)
CreateInfoValues == {IxPlain, IxLinks}

C15_RecordMatchesRequest ==
    (Ran /\ last.result = Ok) =>
        /\ \E ix \in CreateInfoValues : last.data = EncInstruction(ix)
        /\ \A ix \in CreateInfoValues :
              last.data = EncInstruction(ix) =>
                 LET rec == DecodeRecord(ledger[LastInfo].data) IN
                    /\ rec.ok
                    /\ rec.val.mint = to_string(LastMint)
                    /\ rec.val.description = ix.description
                    /\ rec.val.links = ix.links
                    /\ rec.val.images = [icon |-> ix.icon_uri, header |-> ix.header_uri]

\* A creation whose request repeats its first link after a different one.
C15_Witness ==
    /\ Ran /\ last.result = Ok
    /\ last.data = EncInstruction(IxLinks)
    /\ LET links == DecodeRecord(ledger[LastInfo].data).val.links IN
          /\ Len(links) = 3
          /\ links[1] # links[2]
          /\ links[1] = links[3]

(***************************************************************************)
(* C16.  Claim: an instruction buffer that does not match the closed       *)
(* encoding (wrong variant tag, truncated field, trailing bytes after the  *)
(* last field) makes the handler fail with InvalidInstruction (the code's  *)
(* ProgramError::InvalidInstructionData) before any account is inspected   *)
(* and with no side effects, whatever the supplied accounts are.           *)
(***************************************************************************)
WellFormedBuffers == { EncInstruction(ix) : ix \in CreateInfoValues }

C16_MalformedInstruction ==
    (Ran /\ last.data \notin WellFormedBuffers) =>
        /\ last.result = Err("InvalidInstructionData")
        /\ last.passed = {}
        /\ last.calls = << >>
        /\ ledger = last.pre

\* An encoding with one byte after the last field, sent with five accounts to
\* a ledger that holds a record already.
C16_Witness ==
    /\ Ran
    /\ last.data = EncInstruction(IxPlain) \o << 0 >>
    /\ Len(last.accts) < 6
    /\ \E a \in RecordAddrs : Created(ledger, a)
    /\ last.result = Err("InvalidInstructionData")

(***************************************************************************)
(* C17.  Claim: the handler fails fast in a fixed order: when validation   *)
(* checks would fail for an invocation, the error returned is that of the  *)
(* lowest-numbered failing check in the order payer signer, authority      *)
(* signer, authority identity, fee-receiver identity, payer balance,       *)
(* record address, record data empty, record owner, and nothing after the  *)
(* failed check runs.                                                      *)
(***************************************************************************)
\* Check n of the validator would fail on the accounts as the transaction
\* found them.
WouldFail(n) ==
    CASE n = 1 -> LastPayer \notin last.signers
      [] n = 2 -> LastAuthority \notin last.signers
      [] n = 3 -> LastAuthority # AUTHORITY
      [] n = 4 -> LastFeeReceiver # FEE_RECEIVER
      [] n = 5 -> last.pre[LastPayer].lamports < 100000000
      [] n = 6 -> LastInfo # InfoAddress(LastMint)
      [] n = 7 -> last.pre[LastInfo].data # << >>
      [] n = 8 -> last.pre[LastInfo].owner # Prog.system

CheckError(n) ==
    CASE n \in {1, 2} -> Err("MissingRequiredSignature")
      [] n \in {3, 4, 6} -> Err("InvalidArgument")
      [] n = 5 -> InsufficientFunds
      [] n = 7 -> AccountAlreadyExists
      [] n = 8 -> Err("InvalidAccountData")

FailingChecks == { n \in 1..8 : WouldFail(n) }

FirstFailing == CHOOSE n \in FailingChecks : \A m \in FailingChecks : n <= m

C17_FailFastOrder ==
    (IsCreateInfo /\ FailingChecks # {}) =>
        /\ last.result = CheckError(FirstFailing)
        /\ last.passed = 1..(FirstFailing - 1)
        /\ \A c \in CallsOf(last.calls) : c.call # "create_account"

(***************************************************************************)
(* C18.  Claim: the payer-balance check covers only the fee: in a request  *)
(* that is valid otherwise, a payer whose balance is at least the fee but  *)
(* less than the fee plus the rent-exempt minimum of the encoded record    *)
(* passes check 5, has the fee transferred, and then fails in the          *)
(* create_account sub-call with that sub-call's error, not with            *)
(* InsufficientFunds; the invocation aborts and neither the fee transfer   *)
(* nor any record persists.                                                *)
(***************************************************************************)
\* A request that passes every check but cannot pay the rent on top of the fee.
FeeButNotRent ==
    /\ IsCreateInfo
    /\ FailingChecks = {}
    /\ LastSystem = Prog.system
    /\ last.pre[LastPayer].owner = Prog.system
    /\ last.pre[LastPayer].lamports >= 100000000
    /\ last.pre[LastPayer].lamports < 100000000 + LastRent

FailsInCreateAccount ==
    /\ 5 \in last.passed
    /\ last.calls = << Called("transfer", TRUE), Called("create_account", FALSE) >>
    /\ last.result # Ok
    /\ last.result # Custom(2)
    /\ ledger = last.pre

C18_AsStated == FeeButNotRent => FailsInCreateAccount

\* C18, amended: the above for a payer other than the fee receiver, the error
\* being the system program's ResultWithNegativeLamports (or its
\* AccountAlreadyInUse when the record address holds lamports already); a
\* payer that is the fee receiver itself gets the fee back, can pay the rent
\* and creates the record.
C18_RentNotCovered ==
    /\ (FeeButNotRent /\ LastPayer # FEE_RECEIVER) =>
          /\ FailsInCreateAccount
          /\ last.result = IF last.pre[LastInfo].lamports > 0
                           THEN Custom(SystemError.AccountAlreadyInUse)
                           ELSE Custom(SystemError.ResultWithNegativeLamports)
    /\ (FeeButNotRent /\ LastPayer = FEE_RECEIVER /\ last.pre[LastInfo].lamports = 0) =>
          /\ last.result = Ok
          /\ Created(ledger, LastInfo)

\* A payer holding exactly the fee: the transfer empties it and create_account
\* finds no lamports for the rent.
C18_Witness ==
    /\ FeeButNotRent
    /\ LastPayer = Wallet.alice
    /\ last.pre[LastPayer].lamports = fee_amount
    /\ last.pre[LastInfo].lamports = 0
    /\ last.result = Custom(SystemError.ResultWithNegativeLamports)
    /\ ledger = last.pre

(***************************************************************************)
(* C19.  Claim: over any sequence of invocations, with no other program    *)
(* moving funds, the total of all balances is conserved, each successful   *)
(* creation lowers the payer's balance by exactly the fee plus the         *)
(* rent-exempt minimum of the encoded length and gives the record account  *)
(* exactly that minimum, and the fee receiver's cumulative gain equals the *)
(* fee times the number of initialized records.                            *)
(***************************************************************************)
RECURSIVE SumLamports(_, _)
SumLamports(l, keys) ==
    IF keys = {} THEN 0
    ELSE LET k == CHOOSE x \in keys : TRUE IN
         l[k].lamports + SumLamports(l, keys \ {k})

TotalConserved ==
    Ran => SumLamports(ledger, LedgerKeys) = SumLamports(last.pre, LedgerKeys)

InitializedRecords == { a \in RecordAddrs : Created(ledger, a) }

\* What the fee receiver holds beyond its balance in the initial ledger.
FeeReceiverGain ==
    ledger[FEE_RECEIVER].lamports
        - InitLedger(Rich, 0, Prog.system)[FEE_RECEIVER].lamports

C19_AsStated ==
    /\ TotalConserved
    /\ (Ran /\ last.result = Ok) =>
          /\ ledger[LastPayer].lamports
                = last.pre[LastPayer].lamports - (100000000 + LastRent)
          /\ ledger[LastInfo].lamports = LastRent
    /\ FeeReceiverGain = 100000000 * Cardinality(InitializedRecords)

\* C19, amended: the total is conserved and a created record holds exactly its
\* rent-exempt minimum; a successful creation lowers the payer's balance by
\* the fee plus that minimum when the payer is not the fee receiver, and by
\* the minimum alone when it is; the fee receiver's cumulative gain is the
\* fee for each record another account paid for, less the rent-exempt minimum
\* of each record it paid for itself.
C19_LamportAccounting ==
    /\ TotalConserved
    /\ \A a \in InitializedRecords :
          ledger[a].lamports = RentMinimumBalance(Len(ledger[a].data))
    /\ (Ran /\ last.result = Ok) =>
          /\ last.pre[LastInfo].lamports = 0
          /\ ledger[LastInfo].lamports = LastRent
          /\ LastPayer # FEE_RECEIVER =>
                ledger[LastPayer].lamports
                   = last.pre[LastPayer].lamports - (100000000 + LastRent)
          /\ LastPayer = FEE_RECEIVER =>
                ledger[LastPayer].lamports = last.pre[LastPayer].lamports - LastRent
    /\ \E own \in SUBSET InitializedRecords :
          FeeReceiverGain
             = 100000000 * Cardinality(InitializedRecords \ own)
                  - SumLamports(ledger, own)

\* The second creation a wallet paid for: two fees collected, two records
\* holding their rent.
C19_Witness ==
    /\ Ran /\ last.result = Ok
    /\ LastPayer = Wallet.alice
    /\ InitializedRecords = RecordAddrs
    /\ FeeReceiverGain = 2 * fee_amount
    /\ ledger[LastPayer].lamports
          = last.pre[LastPayer].lamports - (fee_amount + LastRent)

====
